---------------------------- MODULE Spec2Model ----------------------------
(***************************************************************************)
(* Model of ip_monitor_server: the bounded in-memory alert log             *)
(* (alert_queue.py), the camera worker threads that write to it            *)
(* (camera_handler.py) and the API layer that reads it (main.py).          *)
(*                                                                         *)
(* Threads.  Every CameraHandler is a threading.Thread; the FastAPI routes *)
(* are `async def` without an await, so they run one at a time on the      *)
(* event-loop thread.  A thread switch can happen between any two          *)
(* bytecodes, never inside one call into C: deque.append (append and, over *)
(* maxlen, popleft) and list(deque) are each one step.                     *)
(*                                                                         *)
(* Objects.  A Python list value is a record [ref, items]: ref says which  *)
(* object the name is bound to ("new": a list of its own; "recent_alerts": *)
(* the module's deque itself), items its elements when it is its own       *)
(* object.                                                                 *)
(***************************************************************************)
EXTENDS Integers, Sequences, FiniteSets

\* alert_queue.py:5 sets 100; the model runs the same code with a small N.
MAX_ALERTS_IN_MEMORY == 3

\* Total number of add_alert calls the cameras make in one run of the model.
MaxCalls == 5

\* main.py:92 and :98 set 20, below the capacity of 100; the model scales the
\* default limit of GET /api/alertas with the capacity.
DEFAULT_LIMIT == 2

\* The readings of datetime.now().
Times == {0, 1}

\* The cameras of config.json that have a url: one CameraHandler thread each.
Cameras == {"cam_01", "cam_02"}

\* The count arguments the readers are called with.
Counts == -1 .. (MAX_ALERTS_IN_MEMORY + 1)

\* An optional argument is <<>> for None and <<k>> for the integer k.
None == <<>>

Limits == {None} \cup {<<k>> : k \in Counts}

VARIABLES
    recent_alerts,  \* alert_queue.recent_alerts: the deque, oldest first
    log,            \* history: every alert appended, in append order
    clock,          \* the wall clock datetime.now() reads
    pc,             \* pc[c]: where CameraHandler c's thread is
    alert_event,    \* alert_event[c]: add_alert's local dict in thread c
    calls,          \* calls[c]: add_alert calls thread c has made
    ret,            \* what the last read of the API thread returned
    config_file,    \* config.json as it is on disk
    cameras_config, \* lifespan's cameras_config, <<>> before it is loaded
    lifespan_pc,    \* where the main thread is in lifespan
    lifespan_i,     \* the entry or handler lifespan's for loop is at
    app_state,      \* main.app_state: cameras_loaded, camera_handlers
    camera_url,     \* camera_url[c]: CameraHandler c's self.camera_url
    running,        \* running[c]: self.running
    cap,            \* cap[c]: self.cap, "None", "open" or "released"
    since_processed,\* since_processed[c]: time.time() - last_processed_time
    since_current,  \* since_current[c]: time.time() - current_time
    since_detect,   \* history: time since the frame of the last analyze_frame
                    \* call was read, -1 when there was none
    slept,          \* history: seconds of time.sleep since the last _connect
    handles,        \* history: streams thread c has opened and not released
    positives,      \* history: analyze_frame calls that returned True
    last_result,    \* history: how the last analyze_frame call ended
    connected,      \* history: a _connect call of thread c has succeeded
    stop_called,    \* history: stop() has been called on handler c
    last_connect,   \* history: "none", "ok" or "failed", the last _connect
    since_connect,  \* history: time since the last _connect that succeeded,
                    \* -1 when there was none
    after_stop,     \* history: analyze_frame calls and appends thread c has
                    \* made with self.running False, counted up to 2
    MODEL_TYPE,     \* detector.MODEL_TYPE, set when the module is imported
    library_imported,   \* detector.py: the import of lines 16/27 succeeded
    DETECTION_MODEL_INSTANCE,   \* detector.py: "None", "error" or "model"
    PREVIOUS_FRAMES_FOR_MOTION, \* detector.py: camera id -> gray, NoFrame when
                                \* the id is not a key
    analyze_pc,     \* analyze_pc[c]: the line of detector.py thread c is at
    analyze_local,  \* analyze_local[c]: frame and model, the call's locals
    analyze_ret,    \* analyze_ret[c]: what thread c's last analyze_frame
                    \* call returned, or that it raised
    model_loads     \* history: the torch.hub.load calls that returned the model
                    \* (ok) and that raised (failed)

storeVars == <<recent_alerts, log, clock, pc, alert_event, calls, ret>>

mainVars == <<config_file, cameras_config, lifespan_pc, lifespan_i, app_state>>

handlerVars == <<camera_url, running, cap, since_processed, since_current,
                 since_detect, slept, handles, positives, last_result,
                 connected, stop_called,
                 last_connect, since_connect, after_stop>>

detectorVars == <<MODEL_TYPE, library_imported, DETECTION_MODEL_INSTANCE,
                  PREVIOUS_FRAMES_FOR_MOTION, analyze_pc, analyze_local,
                  analyze_ret, model_loads>>

camVars == <<mainVars, handlerVars, detectorVars>>

vars == <<storeVars, camVars>>

----------------------------------------------------------------------------
\* Sequences as Python lists.

Min(a, b) == IF a < b THEN a ELSE b

Max(a, b) == IF a > b THEN a ELSE b

Reverse(s) == [i \in 1 .. Len(s) |-> s[Len(s) + 1 - i]]

\* A slice index as Python normalises it: negative counts from the end, then
\* clamped to 0..len.
PyIndex(i, len) == IF i < 0 THEN Max(i + len, 0) ELSE Min(i, len)

\* s[start:]
PySliceFrom(s, start) == SubSeq(s, PyIndex(start, Len(s)) + 1, Len(s))

\* s[:stop]
PySliceTo(s, stop) == SubSeq(s, 1, PyIndex(stop, Len(s)))

----------------------------------------------------------------------------
\* alert_queue.py

\* Faulty variant: a full store refuses the new alert, as a bounded queue would.
deque_append_drop_new(d, x) ==
    IF Len(d) >= MAX_ALERTS_IN_MEMORY THEN d ELSE Append(d, x)

\* Faulty variant: the oldest alert is dropped from length maxlen - 1 on already.
deque_append_evict_early(d, x) ==
    IF Len(d) + 1 >= MAX_ALERTS_IN_MEMORY THEN Append(Tail(d), x) ELSE Append(d, x)

\* Faulty variant: a deque without maxlen.
deque_append_unbounded(d, x) == Append(d, x)

\* Faulty variant: at capacity the newest stored alert is dropped, not the oldest.
deque_append_drop_newest(d, x) ==
    IF Len(d) >= MAX_ALERTS_IN_MEMORY
    THEN Append(SubSeq(d, 1, Len(d) - 1), x)
    ELSE Append(d, x)

\* deque(maxlen=MAX_ALERTS_IN_MEMORY).append(x): append on the right, and when
\* that exceeds maxlen, drop the leftmost.
deque_append(d, x) ==
    LET a == Append(d, x)
    IN  IF Len(a) > MAX_ALERTS_IN_MEMORY THEN Tail(a) ELSE a

\* Faulty variant: `alerts_copy = recent_alerts`, the deque itself and no copy.
list_alias(d) == [ref |-> "recent_alerts", items |-> d]

\* list(recent_alerts): a new list with the deque's elements, oldest first.
list_copy(d) == [ref |-> "new", items |-> d]

\* The elements a caller finds in a list value when it looks at it now.
Contents(v) == IF v.ref = "recent_alerts" THEN recent_alerts ELSE v.items

\* get_recent_alerts(count): list(recent_alerts)[-count:]; a slice is a new list.
get_recent_alerts(count) ==
    [ref |-> "new", items |-> PySliceFrom(Contents(list_copy(recent_alerts)), -count)]

\* Faulty variant: the reverse() is forgotten.
alerts_copy_not_reversed == list_copy(recent_alerts)

\* alerts_copy after `alerts_copy = list(recent_alerts); alerts_copy.reverse()`.
\* reverse() works in place on the object alerts_copy is bound to.
alerts_copy_reversed ==
    LET alerts_copy == list_copy(recent_alerts)
    IN  [ref |-> alerts_copy.ref, items |-> Reverse(Contents(alerts_copy))]

\* Faulty variant: recent_alerts.reverse(), on the deque and not on the copy.
deque_reversed_in_place == Reverse(recent_alerts)

\* The deque after get_all_alerts_sorted's in-place reverse().
deque_after_reverse ==
    IF alerts_copy_reversed.ref = "recent_alerts"
    THEN alerts_copy_reversed.items
    ELSE recent_alerts

\* `if limit:` is false for None and for 0.
Truthy(limit) == limit # None /\ limit[1] # 0

\* get_all_alerts_sorted(limit): alerts_copy[:limit] is a new list, otherwise
\* alerts_copy itself is returned.
get_all_alerts_sorted(limit) ==
    IF Truthy(limit)
    THEN [ref |-> "new", items |-> PySliceTo(alerts_copy_reversed.items, limit[1])]
    ELSE alerts_copy_reversed

\* Faulty variant: the limit is passed on as it came.
get_alerts_no_default(limit) ==
    [alerts |-> get_all_alerts_sorted(<<limit>>),
     count |-> Len(get_all_alerts_sorted(<<limit>>).items)]

\* main.py, get_alerts(limit): {"alerts": alerts, "count": len(alerts)}.
get_alerts(limit) ==
    LET lim == IF limit <= 0 THEN DEFAULT_LIMIT ELSE limit
        alerts == get_all_alerts_sorted(<<lim>>)
    IN  [alerts |-> alerts, count |-> Len(alerts.items)]

----------------------------------------------------------------------------
\* camera_handler.py: what a CameraHandler passes to add_alert.

camera_name(c) == IF c = "cam_01" THEN "Entrada Principal" ELSE "Pasillo"

alert_message(c) == <<"Actividad detectada en", camera_name(c)>>

NoAlert == [timestamp |-> -1, camera_id |-> "", camera_name |-> "",
            details |-> <<>>, call |-> 0]

TotalCalls == calls["cam_01"] + calls["cam_02"]

----------------------------------------------------------------------------
NoRead == [op |-> "none", arg |-> None, at |-> 0,
           val |-> [ref |-> "new", items |-> <<>>]]

\* A url of config.json: the key missing (cam_info.get("url") is None), the
\* empty string, or an address.
NoUrl == "(missing)"

Urls == {NoUrl, "", "rtsp://camera"}

\* `if not cam_info.get("url")`, `if not self.camera_url`: None and "" are false.
HasUrl(url) == url # NoUrl /\ url # ""

\* processing_interval, in clock ticks of time.time(): main.py:53 passes 1.0,
\* the default is 0.5, the self-test passes 2.
ProcessingInterval == 2

\* A key of PREVIOUS_FRAMES_FOR_MOTION that is not in the dict.
NoFrame == -1

\* The locals of an analyze_frame call that is not under way.
NoLocals == [frame |-> [objects |-> <<>>, gray |-> 0], model |-> "None",
             contours |-> <<>>]

\* analyze_frame has not returned yet.
NoResult == [returned |-> FALSE, raised |-> FALSE, detected |-> FALSE,
             details |-> <<>>]

\* detector.py as its import leaves it (lines 10-11), no analyze_frame call
\* under way.
InitDetector ==
    /\ DETECTION_MODEL_INSTANCE = "None"
    /\ PREVIOUS_FRAMES_FOR_MOTION = [c \in Cameras |-> NoFrame]
    /\ analyze_pc = [c \in Cameras |-> "idle"]
    /\ analyze_local = [c \in Cameras |-> NoLocals]
    /\ analyze_ret = [c \in Cameras |-> NoResult]
    /\ model_loads = [ok |-> 0, failed |-> 0]

\* detector.py as the repository has it: MODEL_TYPE = "cvlib_yolov4_tiny"
\* (line 6), cvlib installed.
InitDetectorAsShipped ==
    /\ InitDetector
    /\ MODEL_TYPE = "cvlib_yolov4_tiny"
    /\ library_imported = TRUE

\* The handlers' fields when every camera of Cameras is configured with a url
\* and its thread is in its streaming loop.
InitStreaming ==
    /\ config_file = [kind |-> "json",
                      content |-> <<[id |-> "cam_01", url |-> "rtsp://camera"],
                                    [id |-> "cam_02", url |-> "rtsp://camera"]>>]
    /\ cameras_config = <<[id |-> "cam_01", url |-> "rtsp://camera"],
                          [id |-> "cam_02", url |-> "rtsp://camera"]>>
    /\ lifespan_pc = "serving"
    /\ lifespan_i = 0
    /\ app_state = [cameras_loaded |-> TRUE, camera_handlers |-> <<"cam_01", "cam_02">>]
    /\ camera_url = [c \in Cameras |-> "rtsp://camera"]
    /\ running = [c \in Cameras |-> TRUE]
    /\ cap = [c \in Cameras |-> "open"]
    /\ since_processed = [c \in Cameras |-> ProcessingInterval]
    /\ since_current = [c \in Cameras |-> 0]
    /\ since_detect = [c \in Cameras |-> -1]
    /\ slept = [c \in Cameras |-> 0]
    /\ handles = [c \in Cameras |-> 1]
    /\ positives = [c \in Cameras |-> 0]
    /\ last_result = [c \in Cameras |-> "none"]
    /\ connected = [c \in Cameras |-> TRUE]
    /\ stop_called = [c \in Cameras |-> FALSE]
    /\ last_connect = [c \in Cameras |-> "ok"]
    /\ since_connect = [c \in Cameras |-> ProcessingInterval]
    /\ after_stop = [c \in Cameras |-> [detector |-> 0, alerts |-> 0]]

\* The store as the import of alert_queue leaves it.
InitStore ==
    /\ recent_alerts = <<>>
    /\ log = <<>>
    /\ clock = 0
    /\ alert_event = [c \in Cameras |-> NoAlert]
    /\ calls = [c \in Cameras |-> 0]
    /\ ret = NoRead

\* The store with the camera threads in their streaming loops.
Init ==
    /\ InitStore
    /\ InitDetectorAsShipped
    /\ pc = [c \in Cameras |-> "run"]
    /\ InitStreaming

\* datetime.now() moves on.
Tick ==
    /\ clock + 1 \in Times
    /\ clock' = clock + 1
    /\ UNCHANGED <<recent_alerts, log, pc, alert_event, calls, ret>>
    /\ UNCHANGED camVars

\* CameraHandler.run, lines 83-95, into add_alert, lines 24-30: analyze_frame
\* returns detection_made; when it is true the thread calls add_alert, which
\* reads the clock and builds the dict; otherwise it goes round its loop.  All
\* of it is local to the thread but the reading of the clock.  `call` is not a
\* key of the dict: it stands for the identity of the dict object.
RunDetect(c) ==
    /\ pc[c] = "run"
    /\ TotalCalls < MaxCalls
    /\ \E detection_made \in BOOLEAN :
          IF detection_made
          THEN /\ calls' = [calls EXCEPT ![c] = @ + 1]
               /\ alert_event' = [alert_event EXCEPT ![c] =
                      [timestamp |-> clock, camera_id |-> c,
                       camera_name |-> camera_name(c),
                       details |-> alert_message(c), call |-> calls[c] + 1]]
               /\ pc' = [pc EXCEPT ![c] = "add_alert_31"]
          ELSE UNCHANGED <<pc, calls, alert_event>>
    /\ UNCHANGED <<recent_alerts, log, clock, ret>>
    /\ UNCHANGED camVars

\* add_alert, line 31: recent_alerts.append(alert_event), and return.
AddAlertAppend(c) ==
    /\ pc[c] = "add_alert_31"
    /\ recent_alerts' = deque_append(recent_alerts, alert_event[c])
    /\ log' = Append(log, alert_event[c])
    /\ alert_event' = [alert_event EXCEPT ![c] = NoAlert]
    /\ pc' = [pc EXCEPT ![c] = "run"]
    /\ UNCHANGED <<clock, calls, ret>>
    /\ UNCHANGED camVars

\* A call of get_recent_alerts(count).
GetRecentAlerts(count) ==
    /\ ret' = [op |-> "get_recent_alerts", arg |-> <<count>>, at |-> Len(log),
               val |-> get_recent_alerts(count)]
    /\ UNCHANGED <<recent_alerts, log, clock, pc, alert_event, calls>>
    /\ UNCHANGED camVars

\* A call of get_all_alerts_sorted(limit).
GetAllAlertsSorted(limit) ==
    /\ ret' = [op |-> "get_all_alerts_sorted", arg |-> limit, at |-> Len(log),
               val |-> get_all_alerts_sorted(limit)]
    /\ recent_alerts' = deque_after_reverse
    /\ UNCHANGED <<log, clock, pc, alert_event, calls>>
    /\ UNCHANGED camVars

\* main.py, GET /api/alertas/all: get_all_alerts_sorted() and its length.
GetAllAlertsInMemory ==
    /\ ret' = [op |-> "get_all_alerts_in_memory", arg |-> None, at |-> Len(log),
               val |-> get_all_alerts_sorted(None),
               count |-> Len(get_all_alerts_sorted(None).items)]
    /\ recent_alerts' = deque_after_reverse
    /\ UNCHANGED <<log, clock, pc, alert_event, calls>>
    /\ UNCHANGED camVars

\* main.py, GET /api/alertas?limit=K: a limit of 0 or less is replaced by the
\* default, then get_all_alerts_sorted(limit=limit) and its length.
GetAlerts(limit) ==
    /\ ret' = [op |-> "get_alerts", arg |-> <<limit>>, at |-> Len(log),
               val |-> get_alerts(limit).alerts,
               count |-> get_alerts(limit).count]
    /\ recent_alerts' = deque_after_reverse
    /\ UNCHANGED <<log, clock, pc, alert_event, calls>>
    /\ UNCHANGED camVars

Read ==
    \/ \E count \in Counts : GetRecentAlerts(count)
    \/ \E limit \in Limits : GetAllAlertsSorted(limit)
    \/ GetAllAlertsInMemory
    \/ \E limit \in Counts : GetAlerts(limit)

Next ==
    \/ Tick
    \/ \E c \in Cameras : RunDetect(c)
    \/ \E c \in Cameras : AddAlertAppend(c)
    \/ Read

Spec == Init /\ [][Next]_vars

----------------------------------------------------------------------------
\* camera_handler.py: CameraHandler, one thread per camera.
\*
\* pc[c] is "none" while no CameraHandler object exists for camera c, "new"
\* once it is constructed, "run_41" .. "exit_108" for the line of run() the
\* started thread is at ("add_alert_91": inside the add_alert call of line 91,
\* before its append), and "done" when run() has returned.
\*
\* Time.  time.sleep(d) returns after d seconds or more: slept[c] adds up the
\* whole seconds of the sleeps since the thread's last _connect call, a lower
\* bound of the time between two calls.  time.time() is read through the
\* differences the code takes: since_processed and since_current count ticks
\* of Advance up to ProcessingInterval, from where on the comparison of line 80
\* no longer changes.  A backoff sleep lasts longer than processing_interval.

\* camera_handler.py:51 and :62, time.sleep(10).
ShortBackoff == 10

\* camera_handler.py:65, time.sleep(30).
LongBackoff == 30

\* Faulty variant: the reconnection is tried before the short backoff is over.
sleep_cut_short == ShortBackoff - 1

\* Faulty variant: the wait after a failed reconnection is cut short.
sleep_65_cut_short == LongBackoff - 1

\* Line 62: time.sleep(10) before a reconnection.
sleep_62 == ShortBackoff

\* Line 51: time.sleep(10) before the second initial attempt.
sleep_51 == ShortBackoff

\* Line 65: time.sleep(30) after a failed reconnection.
sleep_65 == LongBackoff

\* Added sleep, kept up to the longest span a claim asks for.
SleptMore(c, d) == [slept EXCEPT ![c] = Min(@ + d, ShortBackoff + LongBackoff)]

Saturated(t) == Min(t, ProcessingInterval)

\* Faulty variant: no thread is taken to be alive.
is_alive_never(c) == FALSE

\* Faulty variant: a thread that has ended still counts.
is_started(c) == pc[c] \notin {"none", "new"}

\* threading.Thread.is_alive(): started and run() not returned.
is_alive(c) == pc[c] \notin {"none", "new", "done"}

\* Faulty variant: a connection leaves last_processed_time as it was.
last_processed_kept(c) == since_processed

\* Lines 57 and 68: last_processed_time = time.time() after a _connect() that
\* succeeded.
last_processed_reset(c) == [since_processed EXCEPT ![c] = 0]

\* Faulty variant: every frame goes to the detector.
throttle_off(c) == TRUE

\* Line 80: (current_time - last_processed_time) >= self.processing_interval,
\* current_time being read in the same step.
throttle_passed(c) == since_processed[c] >= ProcessingInterval

\* Faulty variant: the loop does not look at self.running.
while_true(c) == TRUE

\* Line 59: while self.running.
while_running(c) == running[c]

\* Faulty variant: a failed reconnection ends the thread as lines 53-55 do.
reconnect_gives_up == "done"

\* Lines 64-66: after a failed reconnection the thread sleeps, then `continue`.
reconnect_failed_goto == "sleep_65"

\* Faulty variant: the exception leaves run().
exception_escapes == "done"

\* Lines 98-101: the exception is caught; last_processed_time is set and the
\* loop goes on with the sleep of line 106.
exception_caught_goto == "sleep_106"

\* Faulty variant: an alert for every result that did not raise.
alert_unless_raised(result) == result # "raised"

\* Line 84: if detection_made.
adds_alert(result) == result = "positive"

\* Faulty variant: the stream is dropped without release().
cap_forgotten(c) == handles[c]

\* self.cap.release() on the handler's stream: the handles the thread is left
\* with.
handles_after_release(c) == IF cap[c] = "open" THEN handles[c] - 1 ELSE handles[c]

\* Faulty variant: run() returns without releasing the stream.
exit_keeps_cap(c) == FALSE

\* Line 108: `if self.cap`, true of a VideoCapture object and false of None.
exit_releases(c) == cap[c] # "None"

\* Faulty variant: cap is an attribute of the class, shared by the handlers.
set_cap_shared(c, v) == [d \in Cameras |-> v]

\* self.cap = v: an attribute of handler c alone (set in __init__, line 18).
set_cap(c, v) == [cap EXCEPT ![c] = v]

\* HandlerVars but the ones named.
UnchangedHandler(changed) ==
    /\ "camera_url" \in changed \/ UNCHANGED camera_url
    /\ "running" \in changed \/ UNCHANGED running
    /\ "cap" \in changed \/ UNCHANGED cap
    /\ "since_processed" \in changed \/ UNCHANGED since_processed
    /\ "since_current" \in changed \/ UNCHANGED since_current
    /\ "since_detect" \in changed \/ UNCHANGED since_detect
    /\ "slept" \in changed \/ UNCHANGED slept
    /\ "handles" \in changed \/ UNCHANGED handles
    /\ "positives" \in changed \/ UNCHANGED positives
    /\ "last_result" \in changed \/ UNCHANGED last_result
    /\ "connected" \in changed \/ UNCHANGED connected
    /\ "stop_called" \in changed \/ UNCHANGED stop_called
    /\ "last_connect" \in changed \/ UNCHANGED last_connect
    /\ "since_connect" \in changed \/ UNCHANGED since_connect
    /\ "after_stop" \in changed \/ UNCHANGED after_stop
    /\ UNCHANGED detectorVars

\* CameraHandler(cam_info, ...), lines 9-26, and start(): the object's fields
\* and a started thread.
Constructed(c, url) ==
    /\ camera_url' = [camera_url EXCEPT ![c] = url]
    /\ running' = [running EXCEPT ![c] = FALSE]
    /\ cap' = set_cap(c, "None")
    /\ pc' = [pc EXCEPT ![c] = "run_41"]

\* _connect(), lines 30-38: cv2.VideoCapture opens the stream or does not.
Connect(c, ok) ==
    /\ cap' = set_cap(c, IF ok THEN "open" ELSE "None")
    /\ handles' = [handles EXCEPT ![c] = IF ok THEN @ + 1 ELSE @]
    /\ connected' = [connected EXCEPT ![c] = @ \/ ok]
    /\ slept' = [slept EXCEPT ![c] = 0]
    /\ last_connect' = [last_connect EXCEPT ![c] = IF ok THEN "ok" ELSE "failed"]
    /\ since_connect' = [since_connect EXCEPT ![c] = IF ok THEN 0 ELSE @]

\* run(), lines 41-46.
Run41(c) ==
    /\ pc[c] = "run_41"
    /\ IF HasUrl(camera_url[c])
       THEN /\ running' = [running EXCEPT ![c] = TRUE]
            /\ pc' = [pc EXCEPT ![c] = "connect_48"]
       ELSE /\ running' = [running EXCEPT ![c] = FALSE]
            /\ pc' = [pc EXCEPT ![c] = "done"]
    /\ UnchangedHandler({"running"})
    /\ UNCHANGED <<recent_alerts, log, clock, alert_event, calls, ret, mainVars>>

\* run(), lines 48-50 and 57: the first _connect().
InitialConnect(c) ==
    /\ pc[c] = "connect_48"
    /\ \E ok \in BOOLEAN :
          /\ Connect(c, ok)
          /\ IF ok
             THEN /\ since_processed' = last_processed_reset(c)
                  /\ pc' = [pc EXCEPT ![c] = "loop_59"]
             ELSE /\ UNCHANGED since_processed
                  /\ pc' = [pc EXCEPT ![c] = "sleep_51"]
    /\ UnchangedHandler({"cap", "handles", "connected", "slept", "since_processed",
                         "last_connect", "since_connect"})
    /\ UNCHANGED <<recent_alerts, log, clock, alert_event, calls, ret, mainVars>>

\* run(), line 51: time.sleep(10) returns.
Sleep51(c) ==
    /\ pc[c] = "sleep_51"
    /\ slept' = SleptMore(c, sleep_51)
    /\ since_processed' = [since_processed EXCEPT ![c] = ProcessingInterval]
    /\ pc' = [pc EXCEPT ![c] = "connect_52"]
    /\ UnchangedHandler({"slept", "since_processed"})
    /\ UNCHANGED <<recent_alerts, log, clock, alert_event, calls, ret, mainVars>>

\* run(), lines 52-57: the second _connect(); when it fails too, run() returns.
RetryConnect(c) ==
    /\ pc[c] = "connect_52"
    /\ \E ok \in BOOLEAN :
          /\ Connect(c, ok)
          /\ IF ok
             THEN /\ since_processed' = last_processed_reset(c)
                  /\ pc' = [pc EXCEPT ![c] = "loop_59"]
                  /\ UNCHANGED running
             ELSE /\ UNCHANGED since_processed
                  /\ running' = [running EXCEPT ![c] = FALSE]
                  /\ pc' = [pc EXCEPT ![c] = "done"]
    /\ UnchangedHandler({"cap", "handles", "connected", "slept", "since_processed",
                         "running", "last_connect", "since_connect"})
    /\ UNCHANGED <<recent_alerts, log, clock, alert_event, calls, ret, mainVars>>

\* run(), lines 59-61: the loop test and `if self.cap is None`.
LoopTest(c) ==
    /\ pc[c] = "loop_59"
    /\ pc' = [pc EXCEPT ![c] =
                IF ~while_running(c) THEN "exit_108"
                ELSE IF cap[c] = "None" THEN "sleep_62"
                ELSE "read_70"]
    /\ UnchangedHandler({})
    /\ UNCHANGED <<recent_alerts, log, clock, alert_event, calls, ret, mainVars>>

\* run(), line 62: time.sleep(10) returns.
Sleep62(c) ==
    /\ pc[c] = "sleep_62"
    /\ slept' = SleptMore(c, sleep_62)
    /\ since_processed' = [since_processed EXCEPT ![c] = ProcessingInterval]
    /\ since_detect' = [since_detect EXCEPT ![c] =
                          IF @ = -1 THEN -1 ELSE ProcessingInterval]
    /\ since_connect' = [since_connect EXCEPT ![c] =
                           IF @ = -1 THEN -1 ELSE ProcessingInterval]
    /\ pc' = [pc EXCEPT ![c] = "connect_63"]
    /\ UnchangedHandler({"slept", "since_processed", "since_detect", "since_connect"})
    /\ UNCHANGED <<recent_alerts, log, clock, alert_event, calls, ret, mainVars>>

\* run(), lines 63-68: _connect() in the loop; on success last_processed_time
\* is reset and the thread goes on to read.
Reconnect(c) ==
    /\ pc[c] = "connect_63"
    /\ \E ok \in BOOLEAN :
          /\ Connect(c, ok)
          /\ IF ok
             THEN /\ since_processed' = last_processed_reset(c)
                  /\ pc' = [pc EXCEPT ![c] = "read_70"]
             ELSE /\ UNCHANGED since_processed
                  /\ pc' = [pc EXCEPT ![c] = reconnect_failed_goto]
    /\ UnchangedHandler({"cap", "handles", "connected", "slept", "since_processed",
                         "last_connect", "since_connect"})
    /\ UNCHANGED <<recent_alerts, log, clock, alert_event, calls, ret, mainVars>>

\* run(), lines 65-66: time.sleep(30) returns, `continue`.
Sleep65(c) ==
    /\ pc[c] = "sleep_65"
    /\ slept' = SleptMore(c, sleep_65)
    /\ pc' = [pc EXCEPT ![c] = "loop_59"]
    /\ UnchangedHandler({"slept"})
    /\ UNCHANGED <<recent_alerts, log, clock, alert_event, calls, ret, mainVars>>

\* run(), lines 70-80: self.cap.read().  A failed read releases the stream and
\* goes back to the loop test; a frame is stamped with current_time and goes to
\* the detector when the throttle lets it.
ReadFrame(c) ==
    /\ pc[c] = "read_70"
    /\ \E read_ok \in BOOLEAN :
          IF read_ok
          THEN /\ since_current' = [since_current EXCEPT ![c] = 0]
               /\ pc' = [pc EXCEPT ![c] =
                            IF throttle_passed(c) THEN "analyze_83" ELSE "sleep_106"]
               /\ UNCHANGED <<cap, handles>>
          ELSE /\ handles' = [handles EXCEPT ![c] = handles_after_release(c)]
               /\ cap' = set_cap(c, "None")
               /\ pc' = [pc EXCEPT ![c] = "loop_59"]
               /\ UNCHANGED since_current
    /\ UnchangedHandler({"since_current", "cap", "handles"})
    /\ UNCHANGED <<recent_alerts, log, clock, alert_event, calls, ret, mainVars>>

\* run(), lines 82-101: analyze_frame(frame, self.camera_id) returns True,
\* returns False or raises.  With an alert to add the thread enters add_alert
\* (alert_queue.py:24-30: the clock is read, the dict built); otherwise
\* last_processed_time = current_time.
AnalyzeFrame(c) ==
    /\ pc[c] = "analyze_83"
    /\ \E result \in {"positive", "negative", "raised"} :
          /\ last_result' = [last_result EXCEPT ![c] = result]
          /\ positives' = [positives EXCEPT ![c] =
                              IF result = "positive" THEN @ + 1 ELSE @]
          /\ since_detect' = [since_detect EXCEPT ![c] = since_current[c]]
          /\ after_stop' = [after_stop EXCEPT ![c].detector =
                               IF running[c] THEN @ ELSE Min(@ + 1, 2)]
          /\ IF adds_alert(result)
             THEN /\ TotalCalls < MaxCalls
                  /\ calls' = [calls EXCEPT ![c] = @ + 1]
                  /\ alert_event' = [alert_event EXCEPT ![c] =
                         [timestamp |-> clock, camera_id |-> c,
                          camera_name |-> camera_name(c),
                          details |-> alert_message(c), call |-> calls[c] + 1]]
                  /\ pc' = [pc EXCEPT ![c] = "add_alert_91"]
                  /\ UNCHANGED <<since_processed, since_current>>
             ELSE /\ since_processed' = [since_processed EXCEPT ![c] = since_current[c]]
                  /\ since_current' = [since_current EXCEPT ![c] = 0]
                  /\ pc' = [pc EXCEPT ![c] =
                               IF result = "raised" THEN exception_caught_goto
                               ELSE "sleep_106"]
                  /\ UNCHANGED <<calls, alert_event>>
    /\ UnchangedHandler({"last_result", "positives", "since_detect",
                         "since_processed", "since_current", "after_stop"})
    /\ UNCHANGED <<recent_alerts, log, clock, ret, mainVars>>

\* alert_queue.py:31 called from run(), line 91: the append; then line 101.
RunAddAlert(c) ==
    /\ pc[c] = "add_alert_91"
    /\ recent_alerts' = deque_append(recent_alerts, alert_event[c])
    /\ log' = Append(log, alert_event[c])
    /\ alert_event' = [alert_event EXCEPT ![c] = NoAlert]
    /\ since_processed' = [since_processed EXCEPT ![c] = since_current[c]]
    /\ since_current' = [since_current EXCEPT ![c] = 0]
    /\ after_stop' = [after_stop EXCEPT ![c].alerts =
                         IF running[c] THEN @ ELSE Min(@ + 1, 2)]
    /\ pc' = [pc EXCEPT ![c] = "sleep_106"]
    /\ UnchangedHandler({"since_processed", "since_current", "after_stop"})
    /\ UNCHANGED <<clock, calls, ret, mainVars>>

\* run(), line 106: time.sleep(0.01) returns.
Sleep106(c) ==
    /\ pc[c] = "sleep_106"
    /\ pc' = [pc EXCEPT ![c] = "loop_59"]
    /\ UnchangedHandler({})
    /\ UNCHANGED <<recent_alerts, log, clock, alert_event, calls, ret, mainVars>>

\* run(), lines 108-110: `if self.cap: self.cap.release()`, and run() returns.
ExitRun(c) ==
    /\ pc[c] = "exit_108"
    /\ IF exit_releases(c)
       THEN /\ handles' = [handles EXCEPT ![c] = handles_after_release(c)]
            /\ cap' = set_cap(c, "released")
       ELSE UNCHANGED <<handles, cap>>
    /\ pc' = [pc EXCEPT ![c] = "done"]
    /\ UnchangedHandler({"handles", "cap"})
    /\ UNCHANGED <<recent_alerts, log, clock, alert_event, calls, ret, mainVars>>

\* stop(), lines 112-114.
Stop(c) ==
    /\ running' = [running EXCEPT ![c] = FALSE]
    /\ stop_called' = [stop_called EXCEPT ![c] = TRUE]

\* time.time() moves on by one tick.
Advance ==
    /\ since_processed' = [c \in Cameras |-> Saturated(since_processed[c] + 1)]
    /\ since_current' = [c \in Cameras |-> Saturated(since_current[c] + 1)]
    /\ since_detect' = [c \in Cameras |->
                          IF since_detect[c] = -1 THEN -1
                          ELSE Saturated(since_detect[c] + 1)]
    /\ since_connect' = [c \in Cameras |->
                           IF since_connect[c] = -1 THEN -1
                           ELSE Saturated(since_connect[c] + 1)]
    /\ UnchangedHandler({"since_processed", "since_current", "since_detect",
                         "since_connect"})
    /\ UNCHANGED <<storeVars, mainVars>>

\* The steps of CameraHandler c's thread.
HandlerStep(c) ==
    \/ Run41(c)
    \/ InitialConnect(c)
    \/ Sleep51(c)
    \/ RetryConnect(c)
    \/ LoopTest(c)
    \/ Sleep62(c)
    \/ Reconnect(c)
    \/ Sleep65(c)
    \/ ReadFrame(c)
    \/ AnalyzeFrame(c)
    \/ RunAddAlert(c)
    \/ Sleep106(c)
    \/ ExitRun(c)

----------------------------------------------------------------------------
\* main.py: lifespan, the application's start-up and shutdown.
\*
\* config_file is config.json: missing, not valid JSON, unreadable, or a JSON
\* list of entries, each with an id and a url (NoUrl: the key is missing).
\* cameras_config is what load_camera_config() returned.  lifespan_pc is "load", "startup" (in the loop of line 47, at entry
\* lifespan_i), "serving" (at the yield of line 62), "shutdown" (in the loop of
\* line 66, at handler lifespan_i) or "exited".

Entry(id, url) == [id |-> id, url |-> url]

\* The configurations: none, one or two cameras, with any url.
Configs ==
    {<<>>}
    \cup {<<Entry("cam_01", u)>> : u \in Urls}
    \cup {<<Entry("cam_01", u), Entry("cam_02", v)>> : u \in Urls, v \in Urls}

\* config.json: no such file, text that is not JSON (here the text of one
\* entry cut short), a file open() fails on, or the JSON of a configuration.
ConfigFiles ==
    {[kind |-> "missing", content |-> <<>>],
     [kind |-> "invalid_json", content |-> <<Entry("cam_01", "rtsp://camera")>>],
     [kind |-> "unreadable", content |-> <<Entry("cam_01", "rtsp://camera")>>]}
    \cup {[kind |-> "json", content |-> cfg] : cfg \in Configs}

\* Faulty variant: whatever entries the text holds are returned.
load_camera_config_unchecked(file) == file.content

\* load_camera_config, lines 17-32: [] when the file does not exist (19-21),
\* is not valid JSON (27-29) or cannot be read (30-32).
load_camera_config(file) ==
    IF file.kind = "missing" THEN <<>>
    ELSE IF file.kind = "json" THEN file.content
    ELSE <<>>

WithUrl(cfg) == {i \in 1 .. Len(cfg) : HasUrl(cfg[i].url)}

\* Faulty variant: a handler for every entry.
skips_none(cam_info) == FALSE

\* Line 48: if not cam_info.get("url").
skips_entry(cam_info) == ~HasUrl(cam_info.url)

\* The state before lifespan runs: no CameraHandler object, an alert store
\* with nothing in it.
InitHandlers ==
    /\ pc = [c \in Cameras |-> "none"]
    /\ camera_url = [c \in Cameras |-> NoUrl]
    /\ running = [c \in Cameras |-> FALSE]
    /\ cap = [c \in Cameras |-> "None"]
    /\ since_processed = [c \in Cameras |-> 0]
    /\ since_current = [c \in Cameras |-> 0]
    /\ since_detect = [c \in Cameras |-> -1]
    /\ slept = [c \in Cameras |-> 0]
    /\ handles = [c \in Cameras |-> 0]
    /\ positives = [c \in Cameras |-> 0]
    /\ last_result = [c \in Cameras |-> "none"]
    /\ connected = [c \in Cameras |-> FALSE]
    /\ stop_called = [c \in Cameras |-> FALSE]
    /\ last_connect = [c \in Cameras |-> "none"]
    /\ since_connect = [c \in Cameras |-> -1]
    /\ after_stop = [c \in Cameras |-> [detector |-> 0, alerts |-> 0]]

InitLifespan ==
    /\ cameras_config = <<>>
    /\ lifespan_pc = "load"
    /\ lifespan_i = 0
    /\ app_state = [cameras_loaded |-> FALSE, camera_handlers |-> <<>>]

\* lifespan, lines 39-46.
LifespanLoad ==
    /\ lifespan_pc = "load"
    /\ cameras_config' = load_camera_config(config_file)
    /\ IF cameras_config' = <<>>
       THEN /\ app_state' = [app_state EXCEPT !.cameras_loaded = FALSE]
            /\ lifespan_pc' = "serving"
            /\ lifespan_i' = 0
       ELSE /\ app_state' = [app_state EXCEPT !.cameras_loaded = TRUE]
            /\ lifespan_pc' = "startup"
            /\ lifespan_i' = 1
    /\ UNCHANGED <<config_file, storeVars, handlerVars, detectorVars>>

\* lifespan, lines 47-56: one entry of the configuration.
LifespanEntry ==
    /\ lifespan_pc = "startup"
    /\ lifespan_i <= Len(cameras_config)
    /\ LET cam_info == cameras_config[lifespan_i]
       IN  IF skips_entry(cam_info)
           THEN UNCHANGED <<app_state, pc, camera_url, running, cap>>
           ELSE /\ Constructed(cam_info.id, cam_info.url)
                /\ app_state' = [app_state EXCEPT !.camera_handlers =
                                    Append(@, cam_info.id)]
    /\ lifespan_i' = lifespan_i + 1
    /\ UnchangedHandler({"camera_url", "running", "cap"})
    /\ UNCHANGED <<config_file, cameras_config, lifespan_pc>>
    /\ UNCHANGED <<recent_alerts, log, clock, alert_event, calls, ret>>

\* Faulty variant: the flag is left as line 46 set it.
none_started_unchecked == FALSE

\* Line 58: if not app_state["camera_handlers"].
none_started == app_state.camera_handlers = <<>>

\* lifespan, lines 58-62: after the loop, up to the yield.
LifespanLoaded ==
    /\ lifespan_pc = "startup"
    /\ lifespan_i > Len(cameras_config)
    /\ IF none_started
       THEN app_state' = [app_state EXCEPT !.cameras_loaded = FALSE]
       ELSE UNCHANGED app_state
    /\ lifespan_pc' = "serving"
    /\ lifespan_i' = 0
    /\ UNCHANGED <<config_file, cameras_config, storeVars, handlerVars, detectorVars>>

\* lifespan, lines 64-65: the application is shutting down.
LifespanShutdown ==
    /\ lifespan_pc = "serving"
    /\ lifespan_pc' = "shutdown"
    /\ lifespan_i' = 1
    /\ UNCHANGED <<config_file, cameras_config, app_state, storeVars, handlerVars, detectorVars>>

\* lifespan, lines 66-69: one handler of app_state["camera_handlers"].
LifespanStop ==
    /\ lifespan_pc = "shutdown"
    /\ lifespan_i <= Len(app_state.camera_handlers)
    /\ LET handler == app_state.camera_handlers[lifespan_i]
       IN  IF is_alive(handler)
           THEN Stop(handler)
           ELSE UNCHANGED <<running, stop_called>>
    /\ lifespan_i' = lifespan_i + 1
    /\ UnchangedHandler({"running", "stop_called"})
    /\ UNCHANGED <<config_file, cameras_config, lifespan_pc, app_state, storeVars>>

\* lifespan, line 74: after the loop.
LifespanExit ==
    /\ lifespan_pc = "shutdown"
    /\ lifespan_i > Len(app_state.camera_handlers)
    /\ lifespan_pc' = "exited"
    /\ lifespan_i' = 0
    /\ UNCHANGED <<config_file, cameras_config, app_state, storeVars, handlerVars, detectorVars>>

\* root(), lines 79-89: what GET / returns in this state.
root ==
    [status |-> "IP Monitor Server running",
     cameras_configured_and_loaded |-> app_state.cameras_loaded,
     active_camera_threads |->
        Cardinality({i \in 1 .. Len(app_state.camera_handlers) :
                        is_alive(app_state.camera_handlers[i])}),
     total_camera_handlers_initialized |-> Len(app_state.camera_handlers),
     alert_queue_max_size |-> MAX_ALERTS_IN_MEMORY,
     current_alerts_in_queue |-> Len(recent_alerts)]

Lifespan ==
    \/ LifespanLoad
    \/ LifespanEntry
    \/ LifespanLoaded
    \/ LifespanShutdown
    \/ LifespanStop
    \/ LifespanExit

\* The application with one camera that has a url: its CameraHandler from
\* start-up to the end of run(), with the time its loop measures.  The alerts'
\* timestamps are left at the first reading of the clock.
InitCam ==
    /\ InitStore
    /\ InitDetectorAsShipped
    /\ InitHandlers
    /\ InitLifespan
    /\ config_file \in {file \in ConfigFiles :
                          Cardinality(WithUrl(load_camera_config(file))) = 1}

NextCam ==
    \/ Lifespan
    \/ \E c \in Cameras : HandlerStep(c)
    \/ Advance

SpecCam == InitCam /\ [][NextCam]_vars

\* Every step of a started thread is taken in the end: sleeps, reads and
\* connection attempts return.
SpecCamFair == SpecCam /\ \A c \in Cameras : WF_vars(HandlerStep(c))

\* The class used directly: CameraHandler(camera_info).start() on a camera_info
\* with any url, by a caller other than lifespan.  __init__ accepts a
\* camera_info without url (lines 21-26, a warning); lifespan never constructs
\* one (main.py:48-50), so lines 43-46 of run() are only met this way.
DirectStart(c) ==
    /\ pc[c] = "none"
    /\ \A i \in 1 .. Len(load_camera_config(config_file)) :
          LET cam_info == load_camera_config(config_file)[i]
          IN  cam_info.id = c => ~HasUrl(cam_info.url)
    /\ \E url \in Urls : Constructed(c, url)
    /\ UnchangedHandler({"camera_url", "running", "cap"})
    /\ UNCHANGED <<recent_alerts, log, clock, alert_event, calls, ret, mainVars>>

\* The application with any configuration, from start-up to shutdown, and its
\* CameraHandlers' connections.  Time stands still: no frame passes the
\* throttle after a connection, so the detector and add_alert are not called.
InitMain ==
    /\ InitStore
    /\ InitDetectorAsShipped
    /\ InitHandlers
    /\ InitLifespan
    /\ config_file \in ConfigFiles

NextMain ==
    \/ Lifespan
    \/ \E c \in Cameras :
          \/ Run41(c)
          \/ InitialConnect(c)
          \/ Sleep51(c)
          \/ RetryConnect(c)
          \/ LoopTest(c)
          \/ Sleep62(c)
          \/ Reconnect(c)
          \/ Sleep65(c)
          \/ ReadFrame(c)
          \/ Sleep106(c)
          \/ ExitRun(c)

SpecMain == InitMain /\ [][NextMain]_vars

\* The shutdown loop of lifespan is run to its end once it is entered; nothing
\* is asked of the camera threads.
SpecMainFair == SpecMain /\ WF_vars(LifespanStop \/ LifespanExit)

\* The application, and CameraHandlers started directly.
NextDirect ==
    \/ NextMain
    \/ \E c \in Cameras : DirectStart(c)

SpecDirect == InitMain /\ [][NextDirect]_vars

\* The application serving with two cameras, both threads in their loops with
\* their streams open, up to shutdown.  Time stands still: the first frame a
\* thread reads goes to the detector, the frames after it are throttled.
InitBoth ==
    /\ InitStore
    /\ InitDetectorAsShipped
    /\ InitStreaming
    /\ pc = [c \in Cameras |-> "loop_59"]

\* A step of camera c's thread inside or out of its loop.
LoopStep(c) ==
    \/ LoopTest(c)
    \/ Sleep62(c)
    \/ Reconnect(c)
    \/ Sleep65(c)
    \/ ReadFrame(c)
    \/ AnalyzeFrame(c)
    \/ RunAddAlert(c)
    \/ Sleep106(c)
    \/ ExitRun(c)

NextBoth ==
    \/ LifespanShutdown
    \/ LifespanStop
    \/ LifespanExit
    \/ \E c \in Cameras : LoopStep(c)

SpecBoth == InitBoth /\ [][NextBoth]_vars

----------------------------------------------------------------------------
\* detector.py: analyze_frame and the three detection backends.

\* MODEL_TYPE values analyze_frame dispatches on (lines 139-143), and one it
\* does not know.
ModelTypes == {"cvlib_yolov4_tiny", "pytorch_yolov5", "simple_motion", "other"}

\* confidence=0.4 handed to cvlib.detect_common_objects, in percent.
CvlibConfidence == 40

\* row['confidence'] > 0.4 in detect_objects_pytorch, in percent.
PersonConfidence == 40

\* Contour areas below min_area are not motion.
min_area == 700

\* What a frame shows: the objects a YOLO network finds in it, each with its
\* label, confidence (percent) and box, and its blurred grayscale image.
Frames ==
    { [objects |-> <<>>, gray |-> 0],
      [objects |-> <<[name |-> "person", confidence |-> 50, box |-> 1]>>, gray |-> 1],
      [objects |-> <<[name |-> "car", confidence |-> 50, box |-> 1],
                     [name |-> "person", confidence |-> 30, box |-> 2]>>, gray |-> 2],
      [objects |-> <<[name |-> "person", confidence |-> 41, box |-> 1],
                     [name |-> "car", confidence |-> 30, box |-> 2],
                     [name |-> "person", confidence |-> 90, box |-> 3]>>, gray |-> 2] }

\* Lines 65-72 and 88-94: the box and confidence of each object labelled
\* 'person', in order.
RECURSIVE PeopleIn(_)
PeopleIn(objects) ==
    IF objects = <<>> THEN <<>>
    ELSE IF Head(objects).name = "person"
         THEN <<[box |-> Head(objects).box, confidence |-> Head(objects).confidence]>>
              \o PeopleIn(Tail(objects))
         ELSE PeopleIn(Tail(objects))

\* cvlib.detect_common_objects(frame, confidence=...): the objects of the
\* frame the network is more confident of than the threshold.
detect_common_objects(frame, confidence) ==
    SelectSeq(frame.objects, LAMBDA o : o.confidence > confidence)

\* model(frame).pandas().xyxy[0]: every prediction of the network.
predictions(frame) == frame.objects

\* detect_objects_cvlib, lines 88-96, when the library call has returned.
cvlib_result(frame) ==
    LET detected_people_boxes == PeopleIn(detect_common_objects(frame, CvlibConfidence))
    IN  [returned |-> TRUE, raised |-> FALSE,
         detected |-> Len(detected_people_boxes) > 0,
         details |-> detected_people_boxes]

\* detect_objects_pytorch, lines 65-74, when model(frame) has returned.
pytorch_result(frame) ==
    LET detected_people_boxes ==
            PeopleIn(SelectSeq(predictions(frame),
                               LAMBDA row : row.confidence > PersonConfidence))
    IN  [returned |-> TRUE, raised |-> FALSE,
         detected |-> Len(detected_people_boxes) > 0,
         details |-> detected_people_boxes]

\* return False, [] (lines 60, 83, 86, 107) and analyze_frame's own defaults
\* (lines 136-137).
NoDetection == [returned |-> TRUE, raised |-> FALSE, detected |-> FALSE, details |-> <<>>]

\* An exception leaves analyze_frame.
Raised == [returned |-> FALSE, raised |-> TRUE, detected |-> FALSE, details |-> <<>>]

\* Lines 109-113: the contours of what differs between the previous image and
\* this one, each with its area and bounding box.  Equal images have none, a
\* small change gives one small contour, a large change a large one as well.
Contours(previous, gray) ==
    LET delta == IF previous > gray THEN previous - gray ELSE gray - previous
    IN  CASE delta = 0 -> <<>>
          [] delta = 1 -> <<[area |-> min_area - 1, box |-> 1]>>
          [] OTHER     -> <<[area |-> min_area - 1, box |-> 1],
                            [area |-> min_area, box |-> 2]>>

\* Lines 120-125: the boxes of the contours that are not below min_area.
RECURSIVE detected_motion_areas(_)
detected_motion_areas(contours) ==
    IF contours = <<>> THEN <<>>
    ELSE IF Head(contours).area < min_area
         THEN detected_motion_areas(Tail(contours))
         ELSE <<[box |-> Head(contours).box]>> \o detected_motion_areas(Tail(contours))

\* Faulty variant: the flag is raised before the area test.
motion_found_any_contour(contours) == contours # <<>>

\* Lines 117-123: motion_found is set where a box is appended.
motion_found(contours) ==
    \E i \in 1..Len(contours) : ~(contours[i].area < min_area)

\* Faulty variant: one previous frame for all cameras.
frame_key_shared(camera_id) == "cam_01"

\* The key of PREVIOUS_FRAMES_FOR_MOTION detect_simple_motion uses: camera_id
\* (lines 105, 106, 109, 115).
frame_key(camera_id) == camera_id

\* A step of thread c inside analyze_frame leaves the rest alone.
UnchangedByDetector ==
    UNCHANGED <<storeVars, mainVars, handlerVars, MODEL_TYPE, library_imported>>

\* Thread c's call ends with result r.
AnalyzeReturn(c, r) ==
    /\ analyze_pc' = [analyze_pc EXCEPT ![c] = "idle"]
    /\ analyze_ret' = [analyze_ret EXCEPT ![c] = r]
    /\ analyze_local' = [analyze_local EXCEPT ![c] = NoLocals]

\* analyze_frame(frame, camera_id), lines 135-152: thread c calls it with a
\* frame it has read; the dispatch on MODEL_TYPE, and for a MODEL_TYPE that is
\* not recognized the return of the defaults.
AnalyzeCall(c) ==
    /\ analyze_pc[c] = "idle"
    /\ \E frame \in Frames :
        IF MODEL_TYPE \in {"cvlib_yolov4_tiny", "pytorch_yolov5", "simple_motion"}
        THEN /\ analyze_local' = [analyze_local EXCEPT ![c] = [NoLocals EXCEPT !.frame = frame]]
             /\ analyze_ret' = [analyze_ret EXCEPT ![c] = NoResult]
             /\ analyze_pc' = [analyze_pc EXCEPT ![c] =
                    CASE MODEL_TYPE = "cvlib_yolov4_tiny" -> "cvlib_80"
                      [] MODEL_TYPE = "pytorch_yolov5"    -> "init_44"
                      [] MODEL_TYPE = "simple_motion"     -> "motion_105"]
        ELSE AnalyzeReturn(c, NoDetection)
    /\ UNCHANGED <<DETECTION_MODEL_INSTANCE, PREVIOUS_FRAMES_FOR_MOTION, model_loads>>
    /\ UnchangedByDetector

\* detect_objects_cvlib, lines 78-96: without cvlib the name raises NameError,
\* the library call may raise; both are caught.
DetectCvlib(c) ==
    /\ analyze_pc[c] = "cvlib_80"
    /\ \E library_raises \in BOOLEAN :
        AnalyzeReturn(c, IF ~library_imported \/ library_raises
                         THEN NoDetection
                         ELSE cvlib_result(analyze_local[c].frame))
    /\ UNCHANGED <<DETECTION_MODEL_INSTANCE, PREVIOUS_FRAMES_FOR_MOTION, model_loads>>
    /\ UnchangedByDetector

\* _initialize_pytorch_model, line 44: the test of the global.
InitModel44(c) ==
    /\ analyze_pc[c] = "init_44"
    /\ analyze_pc' = [analyze_pc EXCEPT ![c] =
            IF DETECTION_MODEL_INSTANCE = "None" /\ MODEL_TYPE = "pytorch_yolov5"
            THEN "load_46" ELSE "return_54"]
    /\ UNCHANGED <<DETECTION_MODEL_INSTANCE, PREVIOUS_FRAMES_FOR_MOTION, model_loads,
                   analyze_local, analyze_ret>>
    /\ UnchangedByDetector

\* Lines 45-53: torch.hub.load returns the model or raises (without torch the
\* name raises NameError before the call); the global gets the model or
\* "error".
Load46(c) ==
    /\ analyze_pc[c] = "load_46"
    /\ \E loaded \in (IF library_imported THEN BOOLEAN ELSE {FALSE}) :
        /\ DETECTION_MODEL_INSTANCE' = IF loaded THEN "model" ELSE "error"
        /\ model_loads' =
              IF ~library_imported THEN model_loads
              ELSE IF loaded THEN [model_loads EXCEPT !.ok = @ + 1]
              ELSE [model_loads EXCEPT !.failed = @ + 1]
    /\ analyze_pc' = [analyze_pc EXCEPT ![c] = "return_54"]
    /\ UNCHANGED <<PREVIOUS_FRAMES_FOR_MOTION, analyze_local, analyze_ret>>
    /\ UnchangedByDetector

\* Line 54, the condition of the conditional expression:
\* DETECTION_MODEL_INSTANCE != "error"; None is returned when it fails.
Return54(c) ==
    /\ analyze_pc[c] = "return_54"
    /\ analyze_pc' = [analyze_pc EXCEPT ![c] =
            IF DETECTION_MODEL_INSTANCE # "error" THEN "return_54_value" ELSE "detect_59"]
    /\ analyze_local' = [analyze_local EXCEPT ![c].model = "None"]
    /\ UNCHANGED <<DETECTION_MODEL_INSTANCE, PREVIOUS_FRAMES_FOR_MOTION, model_loads,
                   analyze_ret>>
    /\ UnchangedByDetector

\* Line 54, the value of the conditional expression: the global is read a
\* second time; line 58 binds it to model.
Return54Value(c) ==
    /\ analyze_pc[c] = "return_54_value"
    /\ analyze_local' = [analyze_local EXCEPT ![c].model = DETECTION_MODEL_INSTANCE]
    /\ analyze_pc' = [analyze_pc EXCEPT ![c] = "detect_59"]
    /\ UNCHANGED <<DETECTION_MODEL_INSTANCE, PREVIOUS_FRAMES_FOR_MOTION, model_loads,
                   analyze_ret>>
    /\ UnchangedByDetector

\* detect_objects_pytorch, lines 59-74: no model, no detection; model(frame)
\* is outside any try, and calling the string "error" raises TypeError.
DetectPytorch(c) ==
    /\ analyze_pc[c] = "detect_59"
    /\ \E model_raises \in BOOLEAN :
        AnalyzeReturn(c,
            CASE analyze_local[c].model = "None"  -> NoDetection
              [] analyze_local[c].model = "error" -> Raised
              [] OTHER -> IF model_raises THEN Raised
                          ELSE pytorch_result(analyze_local[c].frame))
    /\ UNCHANGED <<DETECTION_MODEL_INSTANCE, PREVIOUS_FRAMES_FOR_MOTION, model_loads>>
    /\ UnchangedByDetector

\* detect_simple_motion, lines 102-113: the first frame of a camera id is
\* stored and nothing is detected; otherwise the contours against the stored
\* frame are found.
DetectMotion105(c) ==
    /\ analyze_pc[c] = "motion_105"
    /\ IF PREVIOUS_FRAMES_FOR_MOTION[frame_key(c)] = NoFrame
       THEN /\ PREVIOUS_FRAMES_FOR_MOTION' =
                  [PREVIOUS_FRAMES_FOR_MOTION EXCEPT ![frame_key(c)] = analyze_local[c].frame.gray]
            /\ AnalyzeReturn(c, NoDetection)
       ELSE /\ analyze_local' = [analyze_local EXCEPT ![c].contours =
                  Contours(PREVIOUS_FRAMES_FOR_MOTION[frame_key(c)], analyze_local[c].frame.gray)]
            /\ analyze_pc' = [analyze_pc EXCEPT ![c] = "motion_115"]
            /\ UNCHANGED <<PREVIOUS_FRAMES_FOR_MOTION, analyze_ret>>
    /\ UNCHANGED <<DETECTION_MODEL_INSTANCE, model_loads>>
    /\ UnchangedByDetector

\* detect_simple_motion, lines 115-128: the frame replaces the stored one and
\* the contours of min_area or more are returned.
DetectMotion115(c) ==
    /\ analyze_pc[c] = "motion_115"
    /\ PREVIOUS_FRAMES_FOR_MOTION' =
          [PREVIOUS_FRAMES_FOR_MOTION EXCEPT ![frame_key(c)] = analyze_local[c].frame.gray]
    /\ AnalyzeReturn(c, [returned |-> TRUE, raised |-> FALSE,
                         detected |-> motion_found(analyze_local[c].contours),
                         details |-> detected_motion_areas(analyze_local[c].contours)])
    /\ UNCHANGED <<DETECTION_MODEL_INSTANCE, model_loads>>
    /\ UnchangedByDetector

\* The camera threads calling analyze_frame from their loops, under any
\* MODEL_TYPE the module can be edited to and with or without the backend's
\* library installed.
InitAnalyze ==
    /\ InitStore
    /\ InitStreaming
    /\ pc = [c \in Cameras |-> "analyze_83"]
    /\ InitDetector
    /\ MODEL_TYPE \in ModelTypes
    /\ library_imported \in BOOLEAN

NextAnalyze ==
    \E c \in Cameras :
        \/ AnalyzeCall(c)
        \/ DetectCvlib(c)
        \/ InitModel44(c)
        \/ Load46(c)
        \/ Return54(c)
        \/ Return54Value(c)
        \/ DetectPytorch(c)
        \/ DetectMotion105(c)
        \/ DetectMotion115(c)

SpecAnalyze == InitAnalyze /\ [][NextAnalyze]_vars

----------------------------------------------------------------------------
\* What the claims are stated with.

N == MAX_ALERTS_IN_MEMORY

\* The last min(Len(s), n) elements of s, oldest first.
LastN(s, n) == SubSeq(s, Len(s) - Min(Len(s), n) + 1, Len(s))

\* What the store holds once the first m appends of the history are done.
StoreAfter(m) == LastN(SubSeq(log, 1, m), N)

\* Thread c completes an add_alert call in this step.
AppendStep(c) == pc[c] = "add_alert_31" /\ pc'[c] = "run"

\* The last read was get_all_alerts_sorted() with no limit, directly or through
\* GET /api/alertas/all.
ReadAllNoLimit(r) ==
    \/ r.op = "get_all_alerts_sorted" /\ r.arg = None
    \/ r.op = "get_all_alerts_in_memory"

\* C1: in every reachable state recent_alerts holds at most
\* MAX_ALERTS_IN_MEMORY alerts, whatever add_alert calls the threads made.
C1_SizeBounded == Len(recent_alerts) <= MAX_ALERTS_IN_MEMORY

\* An add_alert call has completed on a full store.
C1_Witness == Len(recent_alerts) = N /\ Len(log) = N + 1

\* C2: an add_alert completing on a store that holds N alerts removes the
\* oldest one only and appends the new one as newest, the size staying N; and
\* after k appends beyond capacity the oldest stored alert is the (k+1)-th
\* alert ever appended.
C2_FifoEviction ==
    [][\A c \in Cameras :
         AppendStep(c) =>
           /\ Len(recent_alerts) = N =>
                 recent_alerts' = Append(Tail(recent_alerts), alert_event[c])
           /\ Len(log') >= N =>
                 /\ Len(recent_alerts') = N
                 /\ recent_alerts'[1] = log'[(Len(log') - N) + 1]]_vars

\* Two appends beyond capacity: the third alert ever appended is the oldest.
C2_Witness ==
    /\ Len(log) = N + 2
    /\ Len(recent_alerts) = N
    /\ recent_alerts[1] = log[3]
    /\ log[1] # log[3]

\* C3: get_all_alerts_sorted() with no limit, and GET /api/alertas/all, return
\* exactly the last min(m, N) of the m alerts appended so far, newest first, so
\* that an alert appended later comes earlier and an evicted alert is absent.
C3_AllNewestFirst ==
    ReadAllNoLimit(ret) =>
        /\ ret.val.items = Reverse(StoreAfter(ret.at))
        /\ Len(ret.val.items) = Min(ret.at, N)
        /\ ret.op = "get_all_alerts_in_memory" => ret.count = Min(ret.at, N)

\* N + 1 alerts E1..E(N+1) appended, then a read: for N = 3, [E4, E3, E2].
C3_Witness ==
    /\ ReadAllNoLimit(ret)
    /\ ret.at = N + 1
    /\ ret.val.items = [i \in 1 .. N |-> log[N + 2 - i]]
    /\ \A i \in 1 .. N : ret.val.items[i] # log[1]

\* s[i..j] for some i, j: s is a contiguous run of w.
IsRunOf(s, w) ==
    \E i \in 0 .. Len(w) : i + Len(s) <= Len(w) /\ s = SubSeq(w, i + 1, i + Len(s))

\* The first min(Len(s), k) elements of s.
FirstN(s, k) == SubSeq(s, 1, Min(Len(s), k))

\* C4: on every store content and for every count in 0..N,
\* get_recent_alerts(count) and get_all_alerts_sorted(limit=count) return the
\* same elements in the same order.
C4_RecentEqualsAllLimit ==
    \A count \in 0 .. N :
        get_recent_alerts(count).items = get_all_alerts_sorted(<<count>>).items

\* C5: get_recent_alerts(count) with 1 <= count <= size returns the count most
\* recently appended alerts, the most recent one first.
C5_RecentNewestFirst ==
    (/\ ret.op = "get_recent_alerts"
     /\ 1 <= ret.arg[1]
     /\ ret.arg[1] <= Len(StoreAfter(ret.at)))
    => ret.val.items = FirstN(Reverse(StoreAfter(ret.at)), ret.arg[1])

\* C6: get_recent_alerts clamps count to [0, size]: count <= 0 returns the
\* empty list, count above the size returns as many alerts as the store holds.
C6_RecentCountClamped ==
    ret.op = "get_recent_alerts" =>
        /\ ret.arg[1] <= 0 => ret.val.items = <<>>
        /\ ret.arg[1] > Len(StoreAfter(ret.at)) =>
              Len(ret.val.items) = Len(StoreAfter(ret.at))

\* A step of the reading thread: no camera thread and no clock moves.
ReadStep == UNCHANGED <<log, clock, pc, alert_event, calls>>

\* C7: a read leaves recent_alerts as it was, and get_all_alerts_sorted()
\* called again with no append completed since its last call returns the same
\* sequence.
C7_ReadsDoNotWrite ==
    [][ReadStep =>
         /\ recent_alerts' = recent_alerts
         /\ (ReadAllNoLimit(ret) /\ ret.at = Len(log) /\ ReadAllNoLimit(ret'))
               => ret'.val.items = ret.val.items]_vars

\* get_all_alerts_sorted() has read a store of two alerts or more, and no
\* append has completed since.
C7_Witness ==
    /\ ReadAllNoLimit(ret)
    /\ ret.at = Len(log)
    /\ Len(recent_alerts) >= 2
    /\ recent_alerts[1] # recent_alerts[2]
    /\ ret.val.items = Reverse(recent_alerts)

\* C8: the list a read returned is a copy: an add_alert completing later, with
\* or without an eviction, changes neither its elements nor its length nor its
\* order.
C8_SnapshotCopy ==
    [][\A c \in Cameras :
         AppendStep(c) => Contents(ret.val)' = Contents(ret.val)]_vars

\* A full read is still held after a later append has evicted one of its
\* alerts from the store.
C8_Witness ==
    /\ ret.op \in {"get_recent_alerts", "get_all_alerts_sorted"}
    /\ ret.at = N
    /\ Len(log) > N
    /\ Len(Contents(ret.val)) = N
    /\ \E i \in 1 .. N : \A j \in 1 .. N : Contents(ret.val)[i] # recent_alerts[j]

\* C9: whatever the interleaving of the camera threads' add_alert calls with a
\* read, what the read returns is taken from the store as it was between two
\* completed appends: at most N alerts, a contiguous run of the append order,
\* and for an unlimited read the whole store of that instant.
C9_ReadsSeeWholeAppends ==
    ret.op # "none" =>
        LET seen == IF ret.op = "get_recent_alerts"
                    THEN ret.val.items
                    ELSE Reverse(ret.val.items)
        IN  /\ Len(seen) <= N
            /\ IsRunOf(seen, StoreAfter(ret.at))
            /\ ReadAllNoLimit(ret) => seen = StoreAfter(ret.at)

\* A read taken on a full store while both camera threads are inside add_alert.
C9_Witness ==
    /\ ReadAllNoLimit(ret)
    /\ ret.at = Len(log)
    /\ Len(recent_alerts) = N
    /\ \A c \in Cameras : pc[c] = "add_alert_31"

\* add_alert calls thread c has completed.
Completed(c) == IF pc[c] = "add_alert_31" THEN calls[c] - 1 ELSE calls[c]

\* The positions of the store that hold an alert of camera c.
StoredOf(c) == {i \in 1 .. Len(recent_alerts) : recent_alerts[i].camera_id = c}

\* C10: the concurrent add_alert calls are serialized without loss or
\* duplicate: the store holds min(N, completed calls) alerts, no alert twice,
\* and of each camera its latest completed calls without a gap, in the order
\* the camera made them.
C10_AddsSerialized ==
    /\ Len(recent_alerts) = Min(N, Completed("cam_01") + Completed("cam_02"))
    /\ Len(log) = Completed("cam_01") + Completed("cam_02")
    /\ \A i, j \in 1 .. Len(recent_alerts) :
          i < j => recent_alerts[i] # recent_alerts[j]
    /\ \A c \in Cameras :
          /\ {recent_alerts[i].call : i \in StoredOf(c)}
                = (Completed(c) - Cardinality(StoredOf(c)) + 1) .. Completed(c)
          /\ \A i, j \in StoredOf(c) :
                i < j => recent_alerts[i].call < recent_alerts[j].call

\* The store has evicted and holds alerts of both cameras in turn, and a
\* camera is inside a further add_alert call.
C10_Witness ==
    /\ Len(log) > N
    /\ \A c \in Cameras : StoredOf(c) # {}
    /\ \E c \in Cameras : pc[c] = "add_alert_31"
    /\ recent_alerts[1].camera_id # recent_alerts[2].camera_id
    /\ recent_alerts[2].camera_id # recent_alerts[3].camera_id

\* C20: GET /api/alertas with a limit K <= 0 returns what the default limit
\* returns; with K >= 1 it returns the min(K, size) most recent alerts, newest
\* first; and its count field is the number of alerts it returns.
C20_GetAlertsLimit ==
    ret.op = "get_alerts" =>
        LET K == ret.arg[1]
            newest_first == Reverse(StoreAfter(ret.at))
        IN  /\ K <= 0 => ret.val.items = FirstN(newest_first, DEFAULT_LIMIT)
            /\ K >= 1 => /\ ret.val.items = FirstN(newest_first, K)
                         /\ Len(ret.val.items) = Min(K, Len(newest_first))
            /\ ret.count = Len(ret.val.items)

\* GET /api/alertas?limit=0 on a full store: the default limit cuts the result.
C20_Witness ==
    /\ ret.op = "get_alerts"
    /\ ret.arg[1] = 0
    /\ Len(StoreAfter(ret.at)) = N
    /\ Len(ret.val.items) = DEFAULT_LIMIT
    /\ ret.val.items[1] = log[ret.at]

\* The lines of run() inside `while self.running`.
LoopPcs ==
    {"loop_59", "sleep_62", "connect_63", "sleep_65", "read_70", "analyze_83",
     "add_alert_91", "sleep_106"}

\* A step of camera c's thread in which a _connect() call made at `at` failed.
ConnectFailed(c, at) == pc[c] = at /\ pc'[c] # at /\ cap'[c] = "None"

C13_StopHonoured ==
    /\ \A c \in Cameras : (pc[c] \in LoopPcs /\ ~running[c]) ~> pc[c] = "done"
    /\ [][\A c \in Cameras :
             /\ stop_called'[c] # stop_called[c] => pc'[c] = pc[c] /\ ~running'[c]
             /\ pc[c] = "loop_59" /\ pc'[c] # "loop_59" /\ ~running[c] =>
                   pc'[c] = "exit_108"]_vars

\* A thread stopped with its stream open has left the loop.
C13_Witness ==
    \E c \in Cameras :
        /\ pc[c] = "exit_108"
        /\ stop_called[c]
        /\ cap[c] = "open"

\* The alerts camera c's thread has appended (log positions).
AddedBy(c) == {i \in 1 .. Len(log) : log[i].camera_id = c}

\* C14: when analyze_frame raises, the exception is caught in run(): the
\* thread stays in its loop with its stream open, adds no alert for the frame,
\* and goes on to the next read.
C14_DetectorErrorCaught ==
    [][\A c \in Cameras :
          /\ pc[c] = "analyze_83" /\ pc'[c] # "analyze_83" /\ last_result'[c] = "raised" =>
                /\ pc'[c] = "sleep_106"
                /\ cap'[c] = "open" /\ handles'[c] = handles[c]
                /\ running'[c] = running[c]
                /\ log' = log /\ recent_alerts' = recent_alerts
                /\ alert_event'[c] = NoAlert
          /\ pc[c] = "sleep_106" /\ pc'[c] # "sleep_106" =>
                pc'[c] = "loop_59" /\ log' = log
          /\ pc[c] = "loop_59" /\ pc'[c] # "loop_59" /\ running[c] /\ cap[c] = "open" =>
                pc'[c] = "read_70"]_vars

\* The thread reads the next frame after a call that raised.
C14_Witness ==
    \E c \in Cameras :
        /\ pc[c] = "read_70"
        /\ last_result[c] = "raised"
        /\ cap[c] = "open"

\* C15: a frame goes to the detector only when no frame went before or the
\* frame that went last was read processing_interval or more before this one.
C15_Throttle ==
    [][\A c \in Cameras :
          pc[c] = "read_70" /\ pc'[c] = "analyze_83" =>
              since_detect[c] = -1 \/ since_detect[c] >= ProcessingInterval]_vars

\* A second frame at the detector, processing_interval after the first, the
\* stream having stayed open.
C15_Witness ==
    \E c \in Cameras :
        /\ pc[c] = "analyze_83"
        /\ slept[c] = 0
        /\ since_detect[c] >= ProcessingInterval

\* C16: of every positive result the thread appends one alert, with its own
\* camera id, camera name and message, and of no other result: the alerts it
\* has appended are as many as its positive results, less the one whose
\* add_alert call is under way.
C16_OneAlertPerPositive ==
    /\ \A c \in Cameras :
          /\ Cardinality(AddedBy(c)) =
                positives[c] - (IF pc[c] = "add_alert_91" THEN 1 ELSE 0)
          /\ Cardinality(AddedBy(c)) <= positives[c]
          /\ \A i \in AddedBy(c) :
                /\ log[i].camera_name = camera_name(c)
                /\ log[i].details = alert_message(c)
          /\ pc[c] = "add_alert_91" =>
                /\ last_result[c] = "positive"
                /\ alert_event[c].camera_id = c
                /\ alert_event[c].camera_name = camera_name(c)
    /\ \A i \in 1 .. Len(log) : log[i].camera_id \in Cameras

\* Two positive results and a negative one: two alerts.
C16_Witness ==
    \E c \in Cameras :
        /\ positives[c] = 2
        /\ Cardinality(AddedBy(c)) = 2
        /\ last_result[c] = "negative"
        /\ pc[c] = "sleep_106"

\* C17: a failed read releases the stream and sets self.cap to None, gives
\* nothing to the detector, and goes back to the loop test; from there the
\* thread, unless stopped, sleeps the short backoff and attempts to reconnect.
C17_ReadFailure ==
    [][\A c \in Cameras :
          /\ pc[c] = "read_70" /\ pc'[c] \notin {"read_70", "analyze_83", "sleep_106"} =>
                /\ pc'[c] = "loop_59"
                /\ cap'[c] = "None"
                /\ handles[c] = 1 /\ handles'[c] = 0
                /\ positives'[c] = positives[c] /\ last_result'[c] = last_result[c]
                /\ since_detect'[c] = since_detect[c]
                /\ log' = log
          /\ pc[c] = "read_70" /\ pc'[c] \in {"analyze_83", "sleep_106"} =>
                cap'[c] = "open"
          /\ pc[c] = "loop_59" /\ pc'[c] # "loop_59" /\ cap[c] = "None" =>
                pc'[c] = IF running[c] THEN "sleep_62" ELSE "exit_108"
          /\ pc[c] = "sleep_62" /\ pc'[c] # "sleep_62" =>
                pc'[c] = "connect_63" /\ slept'[c] >= ShortBackoff]_vars

\* After a failed read the thread is about to reconnect, the short backoff
\* slept.
C17_Witness ==
    \E c \in Cameras :
        /\ pc[c] = "connect_63"
        /\ connected[c]
        /\ slept[c] = ShortBackoff
        /\ cap[c] = "None" /\ handles[c] = 0

\* C18: a thread holds one open stream at most, the one self.cap refers to; a
\* stream is opened only when none is held; a thread that has ended holds none.
C18_NoHandleLeak ==
    \A c \in Cameras :
        /\ handles[c] \in {0, 1}
        /\ handles[c] = 1 <=> cap[c] = "open"
        /\ pc[c] \in {"connect_48", "connect_52", "connect_63"} => handles[c] = 0
        /\ pc[c] = "done" => handles[c] = 0

\* A thread that had its stream open has ended, the stream released.
C18_Witness ==
    \E c \in Cameras :
        /\ pc[c] = "done"
        /\ connected[c]
        /\ cap[c] = "released"
        /\ handles[c] = 0

\* The entries of the configuration lifespan's loop has gone through.
EntriesDone ==
    IF lifespan_pc = "load" THEN 0
    ELSE IF lifespan_pc = "startup" THEN lifespan_i - 1
    ELSE Len(cameras_config)

RECURSIVE IdsWithUrl(_, _)
\* The ids of the first n entries of cfg that have a non-empty url, in order.
IdsWithUrl(cfg, n) ==
    IF n = 0 THEN <<>>
    ELSE IF HasUrl(cfg[n].url) THEN Append(IdsWithUrl(cfg, n - 1), cfg[n].id)
    ELSE IdsWithUrl(cfg, n - 1)

C29_TimestampOrdered ==
    \A i \in 1 .. Len(recent_alerts) - 1 :
        recent_alerts[i].timestamp <= recent_alerts[i + 1].timestamp

\* The alert queries can be answered in this state.
QueriesAnswerable ==
    /\ ENABLED GetAllAlertsInMemory
    /\ ENABLED (\E limit \in Counts : GetAlerts(limit))

\* lifespan has reached its yield.
StartupOver == lifespan_pc \in {"serving", "shutdown", "exited"}

\* C22: with config.json missing, not valid JSON, unreadable or holding an
\* empty list, load_camera_config returns [] and start-up goes on to serve: no
\* CameraHandler exists, GET / reports cameras_configured_and_loaded false and
\* no handler, and the alert queries are answered.
C22_ConfigErrorNonFatal ==
    config_file.kind # "json" \/ config_file.content = <<>> =>
        /\ load_camera_config(config_file) = <<>>
        /\ cameras_config = <<>>
        /\ lifespan_pc # "startup"
        /\ \A c \in Cameras : pc[c] = "none"
        /\ ~root.cameras_configured_and_loaded
        /\ root.total_camera_handlers_initialized = 0
        /\ root.active_camera_threads = 0
        /\ lifespan_pc = "serving" => QueriesAnswerable

\* The application serves with a config.json that is not JSON.
C22_Witness ==
    /\ config_file.kind = "invalid_json"
    /\ lifespan_pc = "serving"
    /\ ~root.cameras_configured_and_loaded

\* C23: the shutdown loop calls stop() on every handler whose thread is alive
\* when the loop comes to it, moves no thread, and comes to its end whatever
\* the threads do, a thread that stays in a read or a sleep included.
C23_ShutdownDoesNotWait ==
    /\ lifespan_pc = "shutdown" ~> lifespan_pc = "exited"
    /\ [][lifespan_pc = "shutdown" /\ lifespan_pc' = "shutdown"
            /\ lifespan_i' # lifespan_i =>
              LET handler == app_state.camera_handlers[lifespan_i]
              IN  /\ lifespan_i' = lifespan_i + 1
                  /\ pc[handler] # "done" => stop_called'[handler] /\ ~running'[handler]
                  /\ pc[handler] = "done" => stop_called'[handler] = stop_called[handler]
                  /\ pc' = pc]_vars

\* lifespan has ended while a stopped thread is still in its read.
C23_Witness ==
    /\ lifespan_pc = "exited"
    /\ \E c \in Cameras : stop_called[c] /\ ~running[c] /\ pc[c] = "read_70"

\* The handlers of app_state whose run() has returned.
Terminated ==
    {i \in 1 .. Len(app_state.camera_handlers) :
        pc[app_state.camera_handlers[i]] = "done"}

\* C24: GET / never reports more active threads than handlers; a handler
\* whose thread has ended counts in the total and not among the active; the
\* queries are answered with any number of threads alive.
C24_StatusDegraded ==
    /\ root.active_camera_threads <= root.total_camera_handlers_initialized
    /\ root.total_camera_handlers_initialized = Len(IdsWithUrl(cameras_config, EntriesDone))
    /\ root.active_camera_threads =
          root.total_camera_handlers_initialized - Cardinality(Terminated)
    /\ lifespan_pc = "serving" => QueriesAnswerable

\* Two handlers, both threads ended, and the application serves.
C24_Witness ==
    /\ lifespan_pc = "serving"
    /\ root.total_camera_handlers_initialized = 2
    /\ root.active_camera_threads = 0

\* C30: once start-up is over cameras_configured_and_loaded is true exactly
\* when a CameraHandler was created and started, and nothing changes it or
\* the list of handlers afterwards.
C30_LoadedFlag ==
    [][/\ StartupOver' =>
            (root.cameras_configured_and_loaded' <=>
                root.total_camera_handlers_initialized' > 0)
       /\ StartupOver => app_state' = app_state]_vars

\* Start-up is over with entries that all lack a url: the flag is false, no
\* handler exists.
C30_Witness ==
    /\ lifespan_pc = "serving"
    /\ Len(cameras_config) = 2
    /\ WithUrl(cameras_config) = {}
    /\ ~root.cameras_configured_and_loaded

\* C25: a stop() is never lost: whenever it is called on a handler, before
\* run() has executed its first statement included, the thread ends.
C25_StopNeverLost ==
    \A c \in Cameras : stop_called[c] ~> pc[c] = "done"

\* C26: with self.running False a thread in its loop calls analyze_frame once
\* more at most and appends one more alert at most; a thread that has ended
\* stays ended and appends nothing.
C26_AtMostOneMoreSample ==
    /\ [](\A c \in Cameras :
             after_stop[c].detector <= 1 /\ after_stop[c].alerts <= 1)
    /\ [][\A c \in Cameras :
             pc[c] = "done" =>
                 /\ pc'[c] = "done"
                 /\ {i \in 1 .. Len(log') : log'[i].camera_id = c} = AddedBy(c)]_vars

\* A thread stopped in its loop has ended after one more analyze_frame call
\* and one more alert.
C26_Witness ==
    \E c \in Cameras :
        /\ pc[c] = "done"
        /\ stop_called[c]
        /\ after_stop[c] = [detector |-> 1, alerts |-> 1]

\* C27: a _connect() call that is not the thread's first comes the short
\* backoff (10 s) or more after the one before, on the initial path and in the
\* loop, and 30 s + 10 s or more after a reconnection that failed.
C27_NoHotLoop ==
    \A c \in Cameras :
        /\ pc[c] = "connect_48" => last_connect[c] = "none"
        /\ pc[c] = "connect_52" =>
              last_connect[c] = "failed" /\ slept[c] >= ShortBackoff
        /\ pc[c] = "connect_63" =>
              /\ last_connect[c] # "none"
              /\ slept[c] >= ShortBackoff
              /\ last_connect[c] = "failed" => slept[c] >= LongBackoff + ShortBackoff

\* A thread about to reconnect after a reconnection that failed.
C27_Witness ==
    \E c \in Cameras :
        /\ pc[c] = "connect_63"
        /\ last_connect[c] = "failed"
        /\ slept[c] >= LongBackoff + ShortBackoff

\* A step of camera c's thread in which a _connect() call succeeded.
ConnectSucceeded(c) ==
    /\ pc[c] \in {"connect_48", "connect_52", "connect_63"}
    /\ pc'[c] # pc[c]
    /\ cap'[c] = "open"

\* C28: a _connect() that succeeds resets the throttle clock, and a frame that
\* went to the detector advances it to the frame's time, also when the call
\* raised: no frame goes to the detector sooner than processing_interval after
\* the last connection, nor sooner than processing_interval after a frame
\* whose call raised.
C28_ThrottleClock ==
    [][\A c \in Cameras :
          /\ ConnectSucceeded(c) => since_processed'[c] = 0
          /\ pc[c] = "analyze_83" /\ pc'[c] = "sleep_106" =>
                since_processed'[c] = since_current[c]
          /\ pc[c] = "read_70" /\ pc'[c] = "analyze_83" =>
                /\ since_connect[c] >= ProcessingInterval
                /\ last_result[c] = "raised" =>
                      since_detect[c] >= ProcessingInterval]_vars

\* A frame at the detector, processing_interval after the frame whose call
\* raised.
C28_Witness ==
    \E c \in Cameras :
        /\ pc[c] = "analyze_83"
        /\ last_result[c] = "raised"
        /\ since_detect[c] >= ProcessingInterval
        /\ since_connect[c] >= ProcessingInterval

\* C21: whatever line the other thread is at (a stream open, a read, a backoff
\* sleep or a detection that does not return, or a thread that has ended),
\* a thread's next step can be taken, the append of an alert included, and the
\* alert queries can be answered; and a step of one thread changes nothing of
\* the other thread.
C21_FailureIsolation ==
    /\ [](\A d \in Cameras :
             /\ pc[d] \in LoopPcs \cup {"exit_108"} => ENABLED LoopStep(d)
             /\ pc[d] = "add_alert_91" => ENABLED RunAddAlert(d)
             /\ QueriesAnswerable)
    /\ [][\A c \in Cameras : \A d \in Cameras \ {c} :
             pc'[c] # pc[c] =>
                 /\ pc'[d] = pc[d]
                 /\ cap'[d] = cap[d] /\ handles'[d] = handles[d]
                 /\ running'[d] = running[d]
                 /\ since_processed'[d] = since_processed[d]
                 /\ alert_event'[d] = alert_event[d]]_vars

\* One thread is about to append its alert while the other waits out the long
\* backoff after a failed reconnection.
C21_Witness ==
    \E c \in Cameras : \E d \in Cameras \ {c} :
        /\ pc[c] = "sleep_65"
        /\ pc[d] = "add_alert_91"

----------------------------------------------------------------------------
\* The backend MODEL_TYPE selects cannot work: MODEL_TYPE is not recognized,
\* the backend's library is not installed, or no load of the model has
\* succeeded.
BackendUnavailable ==
    \/ MODEL_TYPE \notin {"cvlib_yolov4_tiny", "pytorch_yolov5", "simple_motion"}
    \/ MODEL_TYPE \in {"cvlib_yolov4_tiny", "pytorch_yolov5"} /\ ~library_imported
    \/ MODEL_TYPE = "pytorch_yolov5" /\ model_loads.ok = 0

C32_ModelLoadedOnce ==
    MODEL_TYPE = "pytorch_yolov5" => model_loads.ok + model_loads.failed <= 1

\* C33: with the simple-motion backend, a step of the call for camera id c
\* leaves the previous frame of every other camera id as it was; when no
\* frame is stored for c the call returns (False, []) and stores its frame;
\* and when one is stored the contours it finds are those between c's own
\* stored frame and the new one.
C33_FramesIsolated ==
    [][MODEL_TYPE = "simple_motion" =>
        \A c \in Cameras :
            analyze_pc'[c] # analyze_pc[c] =>
                /\ \A d \in Cameras \ {c} :
                      PREVIOUS_FRAMES_FOR_MOTION'[d] = PREVIOUS_FRAMES_FOR_MOTION[d]
                /\ analyze_pc[c] = "motion_105" /\ PREVIOUS_FRAMES_FOR_MOTION[c] = NoFrame =>
                      /\ analyze_ret'[c].returned
                      /\ analyze_ret'[c].detected = FALSE
                      /\ analyze_ret'[c].details = <<>>
                      /\ PREVIOUS_FRAMES_FOR_MOTION'[c] = analyze_local[c].frame.gray
                /\ analyze_pc[c] = "motion_105" /\ PREVIOUS_FRAMES_FOR_MOTION[c] # NoFrame =>
                      analyze_local'[c].contours =
                          Contours(PREVIOUS_FRAMES_FOR_MOTION[c], analyze_local[c].frame.gray)
    ]_vars

\* Both cameras have a frame stored, each its own; cam_01's first call found
\* nothing and a later call for cam_02 found motion against cam_02's frame.
C33_Witness ==
    /\ MODEL_TYPE = "simple_motion"
    /\ PREVIOUS_FRAMES_FOR_MOTION["cam_01"] = 0
    /\ PREVIOUS_FRAMES_FOR_MOTION["cam_02"] = 2
    /\ analyze_ret["cam_01"].returned
    /\ ~analyze_ret["cam_01"].detected
    /\ analyze_ret["cam_02"].returned
    /\ analyze_ret["cam_02"].detected

============================================================================
